---- MODULE Spec2Model ----
(***************************************************************************)
(* State-machine model of the VAE / VRNN reparameterization engine:        *)
(*   src/vrnn.py                         VRNNMemory, VRNN                   *)
(*   src/abstract_vae.py                 AbstractVAE                        *)
(*   src/reparameterizers/gumbel.py      GumbelSoftmax                      *)
(*   src/reparameterizers/isotropic_gaussian.py  IsotropicGaussian          *)
(* Tensors are abstracted to small integers; the networks (recurrent cell, *)
(* encoder, decoder) are black boxes whose results are drawn from small    *)
(* sets.  Temperatures are fixed-point numbers in units of 1e-9.           *)
(***************************************************************************)
EXTENDS Integers, Sequences, FiniteSets, TLC

VARIABLES
    \* ---- VRNNMemory (src/vrnn.py:23-221)
    memory_buffer,   \* self.memory_buffer: list of [output, (h, c)] snapshots
    state,           \* self.state: <<>> while the attribute is unset, else <<[h, c]>>
    outputs,         \* self.outputs: <<>> while the attribute is unset, else <<o>>
    \* ---- mode flags (nn.Module.training)
    training,        \* the model's (and its memory's) training flag
    rep_training,    \* self.reparameterizer.training
    \* ---- GumbelSoftmax (src/reparameterizers/gumbel.py)
    iteration,       \* self.iteration
    tau,             \* self.tau, fixed point, units of 1e-9
    \* ---- aggregate posterior EMAs: number of updates fed to each
    ema,
    \* ---- configuration (read-only after construction)
    config,
    \* ---- VRNN.forward / VRNN.generate_synthetic_samples in progress
    pc,              \* "unbuilt" (before construction), "idle", "forward" (inside
                     \* the loop of forward), "generate"
    input_t,         \* forward's input_t: [is_list, val]; val is a sequence
    i,               \* loop index
    decoded,         \* forward: decoded list; generate: decoded_list
    params,          \* forward: params list
    training_tmp,    \* generate_synthetic_samples' saved training flag
    \* ---- observation of calls
    op,              \* name of the last operation executed
    ret,             \* how the last operation ended: "ok", "error" or "running"
    calls,           \* log of the calls made by the forward/generate in progress
    steps,           \* results of the recurrent-cell steps since the last clear()
    forwarded,       \* a VRNNMemory.forward has run since construction
    result           \* what the last directly called operation returned or raised

vars == <<memory_buffer, state, outputs, training, rep_training, iteration, tau,
          ema, config, pc, input_t, i, decoded, params, training_tmp,
          op, ret, calls, steps, forwarded, result>>

memVars  == <<memory_buffer, state, outputs, forwarded>>
gumVars  == <<iteration, tau>>
callVars == <<pc, input_t, i, decoded, params, training_tmp, calls, result>>

(***************************************************************************)
(* Bounds of the model                                                     *)
(***************************************************************************)
MaxBuf   == 4     \* longest history buffer explored
MaxSteps == 3     \* largest configured max_time_steps
MaxIter  == 24    \* largest Gumbel step counter explored
MaxEma   == 3     \* largest number of EMA updates explored
MaxCats  == 3     \* number of categories (discrete_size) explored
SoftUnit == 4     \* soft samples are multiples of 1 / SoftUnit
LateStart == 231038   \* a Gumbel step count shortly before tau reaches min_temp
MaxWidth == 4     \* widest feature axis and largest continuous_size explored

(***************************************************************************)
(* Value domains                                                           *)
(***************************************************************************)
Zero     == 0                 \* a zero-filled tensor
Noise    == 9                 \* a tensor of N(0, 0.01) noise
HVals    == {1, 2}            \* hidden states the recurrent cell can return
CVals    == {5}               \* cell states the recurrent cell can return
OVals    == {7}               \* outputs the recurrent cell can return
CellOut  == [output : OVals, state : [h : HVals, c : CVals]]
InVals   == {1, 2}            \* input tensors
DecVals  == {0, 1}            \* tensors the decoder can return

Max(a, b) == IF a >= b THEN a ELSE b

\* no value: the last operation was not a direct call that returns one
NoResult == [kind |-> "none"]

\* the mutual-information weights a configuration can carry
MiWeights == {-1, 0, 1}

\* faulty variant: any nonzero weight switches the mutual information on
mi_enabled_nonzero(cfg) ==
    cfg.continuous_mut_info # 0 \/ cfg.discrete_mut_info # 0

\* config['continuous_mut_info'] > 0 or config['discrete_mut_info'] > 0
mi_enabled(cfg) ==
    cfg.continuous_mut_info > 0 \/ cfg.discrete_mut_info > 0

\* the call raised
Raised(error, arg) == [kind |-> "error", error |-> error, arg |-> arg]

\* a returned number, the fraction num / den
Value(num, den) == [kind |-> "value", num |-> num, den |-> den]

\* a returned object
Returned(val) == [kind |-> "returned", val |-> val]

\* the locals and the result of the last forward / generate call are gone
\* once another operation runs
NoCall ==
    /\ pc' = pc /\ training_tmp' = training_tmp
    /\ input_t' = [is_list |-> FALSE, val |-> <<>>]
    /\ i' = 0 /\ decoded' = <<>> /\ params' = <<>> /\ calls' = <<>>
    /\ result' = NoResult

(***************************************************************************)
(* VRNNMemory                                                              *)
(***************************************************************************)
state_from_tuple(tpl) == tpl.state

output_from_tuple(tpl) == tpl.output

\* faulty variant: the snapshot replaces the history instead of extending it
append_to_buffer_replace(buf, tpl) ==
    <<[output |-> tpl.output, state |-> [h |-> tpl.state.h, c |-> tpl.state.c]]>>

\* memory_buffer.append([output.clone(), (h.clone(), c.clone())])
append_to_buffer(buf, tpl) ==
    Append(buf, [output |-> tpl.output,
                 state |-> [h |-> tpl.state.h, c |-> tpl.state.c]])

\* _init: noise when overridden or (training and use_noisy_rnn_state), else zeros
init_one(override_noisy_state) ==
    IF override_noisy_state \/ (training /\ config.use_noisy_rnn_state)
    THEN Noise ELSE Zero

\* init_state: self.state = (_init(), _init())
init_state(override_noisy_state) ==
    <<[h |-> init_one(override_noisy_state), c |-> init_one(override_noisy_state)]>>

\* faulty variant: the cell state is returned instead of the hidden state
get_final_memory_cell ==
    state_from_tuple(memory_buffer[Len(memory_buffer)]).c

\* get_final_memory: _state_from_tuple(memory_buffer[-1])[0]
get_final_memory ==
    state_from_tuple(memory_buffer[Len(memory_buffer)]).h

\* faulty variant: clear() leaves the history in place
clear_keeps(buf) == buf

\* clear: self.memory_buffer.clear()
clear(buf) == <<>>

\* VRNNMemory.forward: update(self.model(input_t, st)), where st is the state after
\* the optional reset and tpl is what the recurrent cell (a black box) returned
MemStep(st, tpl) ==
    /\ memory_buffer' = append_to_buffer(memory_buffer, tpl)
    /\ outputs' = <<output_from_tuple(tpl)>>
    /\ state' = <<state_from_tuple(tpl)>>
    /\ steps' = Append(steps, tpl)
    /\ forwarded' = TRUE

\* ---- operations on the memory object while no VRNN call is in progress
MemInitState(override) ==
    /\ pc = "idle"
    /\ state' = init_state(override)
    /\ op' = "init_state" /\ ret' = "ok"
    /\ UNCHANGED <<memory_buffer, outputs, forwarded, training, rep_training,
                   gumVars, ema, config, callVars, steps>>

MemForward(reset_state, tpl) ==
    /\ pc = "idle"
    /\ Len(memory_buffer) < MaxBuf
    /\ reset_state \/ state # <<>>
    /\ MemStep(IF reset_state THEN init_state(FALSE) ELSE state, tpl)
    /\ op' = "mem_forward" /\ ret' = "ok"
    /\ UNCHANGED <<training, rep_training, gumVars, ema, config, callVars>>

\* forward without reset_state before any init_state: self.state does not exist
MemForwardNoState ==
    /\ pc = "idle"
    /\ state = <<>>
    /\ op' = "mem_forward" /\ ret' = "error"
    /\ UNCHANGED <<memVars, training, rep_training, gumVars, ema, config,
                   callVars, steps>>

MemClear ==
    /\ pc = "idle"
    /\ memory_buffer' = clear(memory_buffer)
    /\ steps' = <<>>
    /\ op' = "clear" /\ ret' = "ok"
    /\ UNCHANGED <<state, outputs, forwarded, training, rep_training, gumVars,
                   ema, config, callVars>>

\* hasattr(self, 'memory_buffer'): __init__ creates the list and nothing
\* deletes the attribute
has_memory_buffer == TRUE

\* faulty variant: get_state asks for a forward pass, as get_output does
get_state_after_forward ==
    IF outputs # <<>> THEN Returned(state[1])
    ELSE Raised("AssertionError", "do a forward pass first")

\* get_state: assert hasattr(self, 'state'); return self.state
get_state ==
    IF state # <<>> THEN Returned(state[1])
    ELSE Raised("AssertionError", "do a forward pass first")

\* get_output: assert hasattr(self, 'outputs'); return self.outputs
get_output ==
    IF outputs # <<>> THEN Returned(outputs[1])
    ELSE Raised("AssertionError", "do a forward pass first")

RECURSIVE SumH(_, _)
SumH(buf, k) == IF k = 0 THEN 0 ELSE state_from_tuple(buf[k]).h + SumH(buf, k - 1)

\* get_merged_memory: the mean of the buffered hidden states; torch.cat of an
\* empty list raises
merged_memory ==
    IF ~has_memory_buffer THEN Raised("AssertionError", "do a forward pass first")
    ELSE IF memory_buffer = <<>> THEN Raised("RuntimeError", "torch.cat")
    ELSE Value(SumH(memory_buffer, Len(memory_buffer)), Len(memory_buffer))

\* get_final_memory called: memory_buffer[-1] of an empty list raises
final_memory ==
    IF ~has_memory_buffer THEN Raised("AssertionError", "do a forward pass first")
    ELSE IF memory_buffer = <<>> THEN Raised("IndexError", "list index out of range")
    ELSE Value(get_final_memory, 1)

\* the variables a getter leaves alone
getterKeeps == <<memVars, training, rep_training, gumVars, ema, config, pc,
                 input_t, i, decoded, params, training_tmp, calls, steps>>

\* ---- the getters called while no VRNN call is in progress
MemGetState ==
    /\ pc = "idle"
    /\ result' = get_state
    /\ ret' = IF result'.kind = "error" THEN "error" ELSE "ok"
    /\ op' = "get_state"
    /\ UNCHANGED getterKeeps

MemGetOutput ==
    /\ pc = "idle"
    /\ result' = get_output
    /\ ret' = IF result'.kind = "error" THEN "error" ELSE "ok"
    /\ op' = "get_output"
    /\ UNCHANGED getterKeeps

MemGetMergedMemory ==
    /\ pc = "idle"
    /\ result' = merged_memory
    /\ ret' = IF result'.kind = "error" THEN "error" ELSE "ok"
    /\ op' = "get_merged_memory"
    /\ UNCHANGED getterKeeps

MemGetFinalMemory ==
    /\ pc = "idle"
    /\ result' = final_memory
    /\ ret' = IF result'.kind = "error" THEN "error" ELSE "ok"
    /\ op' = "get_final_memory"
    /\ UNCHANGED getterKeeps

\* model.train(mode): nn.Module.train sets the flag of every submodule
SetTraining(mode) ==
    /\ pc = "idle"
    /\ training' = mode
    /\ rep_training' = mode
    /\ op' = "train" /\ ret' = "ok"
    /\ NoCall
    /\ UNCHANGED <<memVars, gumVars, ema, config, steps>>

(***************************************************************************)
(* GumbelSoftmax: temperature annealing (fixed point, units of 1e-9)       *)
(***************************************************************************)
tau0 == 1000000000          \* 1.0

anneal_rate == 3000         \* 3e-6

min_temp == 500000000       \* 0.5

anneal_interval == 10       \* default argument of anneal()

\* a * b / 1e9 without leaving 32-bit integers (a, b in 0 .. 2e9)
FixMul(a, b) ==
    LET ah == a \div 100000
        al == a % 100000
        bh == b \div 100000
        bl == b % 100000
    IN  ah * bh * 10 + (ah * bl + al * bh) \div 10000
        + ((al \div 100) * (bl \div 100)) \div 100000

RECURSIVE ExpSeries(_, _, _)
\* the terms k, k+1, .. 14 of the series of exp(-x); term is x^(k-1)/(k-1)!
ExpSeries(x, term, k) ==
    IF k > 14 \/ term = 0 THEN 0
    ELSE LET t == FixMul(term, x) \div k
         IN  (IF k % 2 = 1 THEN -t ELSE t) + ExpSeries(x, t, k + 1)

\* np.exp(rate) for a rate in -1.0 .. 0
np_exp(rate) == tau0 + ExpSeries(-rate, tau0, 1)

\* faulty variant: the temperature is not held at min_temp
anneal_no_floor(is_training, it, t) ==
    IF is_training /\ it > 0 /\ it % anneal_interval = 0
    THEN FixMul(tau0, np_exp(-anneal_rate * it))
    ELSE t

\* faulty variant: the training-mode test of anneal() is missing
anneal_any_mode(is_training, it, t) ==
    IF it > 0 /\ it % anneal_interval = 0
    THEN Max(FixMul(tau0, np_exp(-anneal_rate * it)), min_temp)
    ELSE t

\* anneal(): the new value of self.tau
anneal(is_training, it, t) ==
    IF is_training /\ it > 0 /\ it % anneal_interval = 0
    THEN Max(FixMul(tau0, np_exp(-anneal_rate * it)), min_temp)
    ELSE t

\* self.tau after n training-mode forward calls, n >= 1: the value set by the
\* last call whose step count was a multiple of anneal_interval
tau_after(n) == anneal(TRUE, ((n - 1) \div anneal_interval) * anneal_interval, tau0)

(***************************************************************************)
(* GumbelSoftmax: samples.  A vector over the categories holds multiples   *)
(* of 1 / SoftUnit, so SoftUnit stands for 1.0.                            *)
(***************************************************************************)
Cats == 1..MaxCats

RECURSIVE SumTo(_, _)
SumTo(y, k) == IF k = 0 THEN 0 ELSE y[k] + SumTo(y, k - 1)

\* _gumbel_softmax: softmax((x + noise) / tau).  The Gumbel noise has full
\* support, so every point of the simplex can come out, whatever the logits
SoftSamples == {y \in [Cats -> 0..SoftUnit] : SumTo(y, MaxCats) = SoftUnit}

\* logits handed to the reparameterizer
LogitVals == {[k \in Cats |-> 0], [k \in Cats |-> IF k = 1 THEN 2 ELSE 0]}

\* torch.max(y, dim=dim, keepdim=True)[0]
torch_max(y) == CHOOSE m \in {y[k] : k \in Cats} : \A k \in Cats : y[k] <= m

\* sample_gumbel with hard=True: y_hard = torch.eq(y_max, y) as floats, then
\* y_hard = (y_hard - y).detach() + y
sample_gumbel(y) ==
    LET y_max  == torch_max(y)
        y_hard == [k \in Cats |-> IF y[k] = y_max THEN SoftUnit ELSE 0]
    IN  [k \in Cats |-> (y_hard[k] - y[k]) + y[k]]

\* F.log_softmax(logits, dim=-1), left uninterpreted
log_softmax(x) == [fn |-> "log_softmax", arg |-> x]

\* reparmeterize: z, z_hard = sample_gumbel(logits, tau, hard=True); the soft
\* sample y is what the noise of this call produced
reparmeterize(x, y) ==
    [z |-> y, z_hard |-> sample_gumbel(y), log_q_z |-> log_softmax(x)]

\* faulty variant: forward returns the soft sample in both modes
gumbel_return_soft(is_training, x, y, t) ==
    LET r == reparmeterize(x, y)
    IN  [kind |-> "sample", out |-> r.z,
         params |-> [z |-> r.z,
                     discrete |-> [z_hard |-> r.z_hard, logits |-> x,
                                   log_q_z |-> r.log_q_z, tau_scalar |-> t]]]

\* what forward returns: z in training mode, z_hard otherwise, and the record
\* {'z': z, 'discrete': params}
gumbel_return(is_training, x, y, t) ==
    LET r == reparmeterize(x, y)
    IN  [kind |-> "sample", out |-> IF is_training THEN r.z ELSE r.z_hard,
         params |-> [z |-> r.z,
                     discrete |-> [z_hard |-> r.z_hard, logits |-> x,
                                   log_q_z |-> r.log_q_z, tau_scalar |-> t]]]

\* the step counts explored: from construction on, and from LateStart on
IterExplored(it) ==
    it < MaxIter \/ (LateStart <= it /\ it < LateStart + MaxIter)

\* faulty variant: the step counter only advances on training-mode calls
gumbel_forward_train_only(is_training, it, t) ==
    [iteration |-> IF is_training THEN it + 1 ELSE it,
     tau |-> anneal(is_training, it, t)]

\* GumbelSoftmax.forward: anneal first, sample, then self.iteration += 1
gumbel_forward(is_training, it, t) ==
    [iteration |-> it + 1, tau |-> anneal(is_training, it, t)]

\* reparameterizer(logits) called directly on logits x; y is the soft sample
\* the noise of the call produces
GumbelForward(x, y) ==
    /\ pc = "idle"
    /\ config.reparam_type = <<"discrete">>
    /\ IterExplored(iteration)
    /\ LET r == gumbel_forward(rep_training, iteration, tau)
       IN  /\ iteration' = r.iteration /\ tau' = r.tau
           /\ result' = gumbel_return(rep_training, x, y, r.tau)
    /\ op' = "gumbel_forward" /\ ret' = "ok"
    /\ UNCHANGED <<memVars, training, rep_training, ema, config, pc, input_t, i,
                   decoded, params, training_tmp, calls, steps>>

\* reparameterizer.prior(batch_size): a sample of the uniform categorical
GumbelPrior ==
    /\ pc = "idle"
    /\ config.reparam_type = <<"discrete">>
    /\ op' = "prior" /\ ret' = "ok"
    /\ UNCHANGED <<memVars, training, rep_training, gumVars, ema, config,
                   callVars, steps>>

\* reparameterizer.train(mode)
RepTrain(mode) ==
    /\ pc = "idle"
    /\ rep_training' = mode
    /\ op' = "rep_train" /\ ret' = "ok"
    /\ NoCall
    /\ UNCHANGED <<memVars, training, gumVars, ema, config, steps>>

(***************************************************************************)
(* IsotropicGaussian.  A tensor is its number of dimensions and the        *)
(* entries along its last (feature) axis, in units of eps.                 *)
(***************************************************************************)
eps == 1                      \* eps_fn(self.config['half'])

NaN == -99                    \* stands for float('nan') in a tensor

FeatVals == {0, 5, NaN}

\* float addition: NaN is absorbing
fadd(a, b) == IF a = NaN \/ b = NaN THEN NaN ELSE a + b

\* nan_check_and_break(tensor, name) halts the process when the tensor
\* holds a NaN; TRUE when it halts
nan_check_and_break(tensor) == \E k \in DOMAIN tensor : tensor[k] = NaN

Tensors == [rank : 1..4, feat : UNION {[1..w -> FeatVals] : w \in 1..MaxWidth}]

\* eps.mul(std): a normal draw scaled by std > 0 can be any real number
NoiseVals == {-1, 1}

Noises == [1..(MaxWidth \div 2) -> NoiseVals]

\* evaluation mode draws no noise: the argument is not read there
UnreadNoise == CHOOSE d \in Noises : TRUE

\* torch.mean, left uninterpreted
torch_mean(v) == [fn |-> "mean", arg |-> v]

\* IsotropicGaussian.__init__: assert continuous_size % 2 == 0;
\* output_size = continuous_size // 2
gauss_init(continuous_size) ==
    IF continuous_size % 2 = 0
    THEN [kind |-> "object", input_size |-> continuous_size,
          output_size |-> continuous_size \div 2]
    ELSE Raised("AssertionError", continuous_size)

\* faulty variant: evaluation mode draws a noisy sample as well
reparametrize_gaussian_noisy(is_training, mu, logvar, d) ==
    IF is_training /\ nan_check_and_break(logvar)
    THEN Raised("nan in logvar", logvar)
    ELSE [z |-> [k \in 1..Len(mu) |-> fadd(d[k], mu[k])], mu |-> mu,
          logvar |-> logvar]

\* _reparametrize_gaussian: in training mode nan_check_and_break(logvar),
\* then eps.mul(std).add_(mu); else mu, with no check; d is the scaled noise
\* of this call
reparametrize_gaussian(is_training, mu, logvar, d) ==
    IF is_training
    THEN IF nan_check_and_break(logvar)
         THEN Raised("nan in logvar", logvar)
         ELSE [z |-> [k \in 1..Len(mu) |-> fadd(d[k], mu[k])], mu |-> mu,
               logvar |-> logvar]
    ELSE [z |-> mu, mu |-> mu, logvar |-> logvar]

\* the halves of the feature axis: mu, and sigma = second half + eps
gauss_split(logits) ==
    LET half == Len(logits.feat) \div 2
    IN  [mu    |-> SubSeq(logits.feat, 1, half),
         sigma |-> [k \in 1..half |-> fadd(logits.feat[half + k], eps)]]

\* faulty variant: the width of the logits is not compared with output_size
gauss_reparmeterize_any_width(is_training, output_size, logits, d) ==
    LET feature_size == Len(logits.feat)
    IN  IF ~(feature_size % 2 = 0)
        THEN Raised("AssertionError", logits)
        ELSE IF logits.rank \in {2, 3}
        THEN LET s == gauss_split(logits)
                 r == reparametrize_gaussian(is_training, s.mu, s.sigma, d)
             IN  IF logits.rank = 2 /\ nan_check_and_break(s.mu)
                 THEN Raised("nan in mu", logits)
                 ELSE IF "kind" \in DOMAIN r THEN Raised(r.error, logits)
                 ELSE r
        ELSE Raised("unknown number of dims for isotropic gauss reparam", logits)

\* IsotropicGaussian.reparmeterize: 2D logits have mu NaN-checked, 3D logits
\* have nothing checked here; a halt is recorded with the logits of the call
gauss_reparmeterize(is_training, output_size, logits, d) ==
    LET feature_size == Len(logits.feat)
    IN  IF ~(feature_size % 2 = 0 /\ feature_size \div 2 = output_size)
        THEN Raised("AssertionError", logits)
        ELSE IF logits.rank \in {2, 3}
        THEN LET s == gauss_split(logits)
                 r == reparametrize_gaussian(is_training, s.mu, s.sigma, d)
             IN  IF logits.rank = 2 /\ nan_check_and_break(s.mu)
                 THEN Raised("nan in mu", logits)
                 ELSE IF "kind" \in DOMAIN r THEN Raised(r.error, logits)
                 ELSE r
        ELSE Raised("unknown number of dims for isotropic gauss reparam", logits)

\* IsotropicGaussian.forward: z, {'z': z, 'logits': logits, 'gaussian': params}
gauss_forward(is_training, output_size, logits, d) ==
    LET r == gauss_reparmeterize(is_training, output_size, logits, d)
    IN  IF "kind" \in DOMAIN r
        THEN r
        ELSE [kind |-> "sample", out |-> r.z,
              params |-> [z |-> r.z, logits |-> logits,
                          gaussian |-> [mu |-> r.mu, logvar |-> r.logvar,
                                        mu_mean |-> torch_mean(r.mu),
                                        logvar_mean |-> torch_mean(r.logvar)]]]

\* IsotropicGaussian(config)
GaussConstruct ==
    /\ pc = "unbuilt"
    /\ config.reparam_type = <<"isotropic_gaussian">>
    /\ LET g == gauss_init(config.continuous_size)
       IN  IF g.kind = "object"
           THEN pc' = "idle" /\ ret' = "ok" /\ result' = NoResult
           ELSE pc' = pc /\ ret' = "error" /\ result' = g
    /\ op' = "construct"
    /\ UNCHANGED <<memVars, training, rep_training, gumVars, ema, config, input_t,
                   i, decoded, params, training_tmp, calls, steps>>

\* reparameterizer(logits) called directly
GaussForward(logits, d) ==
    /\ pc = "idle"
    /\ config.reparam_type = <<"isotropic_gaussian">>
    /\ result' = gauss_forward(rep_training, gauss_init(config.continuous_size).output_size,
                               logits, d)
    /\ ret' = IF result'.kind = "error" THEN "error" ELSE "ok"
    /\ op' = "gauss_forward"
    /\ UNCHANGED <<memVars, training, rep_training, gumVars, ema, config, pc,
                   input_t, i, decoded, params, training_tmp, calls, steps>>

(***************************************************************************)
(* Configuration strings.  A reparam_type is a sequence of chunks, a       *)
(* mut_clamp_strategy a sequence of characters; s in t is the test for a   *)
(* contiguous subsequence.                                                 *)
(***************************************************************************)
TypeNames ==
    {<<"isotropic_gaussian">>, <<"discrete">>, <<"beta">>, <<"mixture">>,
     <<"beta", "_", "mixture">>, <<"not_a_", "mixture">>, <<"gumbel">>,
     <<"isotropic_gaussian", "s">>, <<>>}

StrategyNames ==
    {<<"n", "o", "n", "e">>, <<"n", "o", "r", "m">>, <<"c", "l", "a", "m", "p">>,
     <<" ", "N", "o", "r", "m", " ">>, <<"C", "L", "A", "M", "P">>,
     <<"c", "l", "i", "p">>, <<"n", "o", "r", "m", "s">>, <<>>}

\* sub in s
Contains(sub, s) ==
    \E k \in 0..(Len(s) - Len(sub)) : SubSeq(s, k + 1, k + Len(sub)) = sub

RECURSIVE lstrip(_)
lstrip(s) == IF s # <<>> /\ Head(s) = " " THEN lstrip(Tail(s)) ELSE s

RECURSIVE rstrip(_)
rstrip(s) ==
    IF s # <<>> /\ s[Len(s)] = " " THEN rstrip(SubSeq(s, 1, Len(s) - 1)) ELSE s

\* str.strip()
strip(s) == rstrip(lstrip(s))

lower_char(c) ==
    CASE c = "A" -> "a" [] c = "C" -> "c" [] c = "E" -> "e" [] c = "L" -> "l"
      [] c = "M" -> "m" [] c = "N" -> "n" [] c = "O" -> "o" [] c = "P" -> "p"
      [] c = "R" -> "r" [] OTHER -> c

\* str.lower()
lower(s) == [k \in 1..Len(s) |-> lower_char(s[k])]

(***************************************************************************)
(* VRNN.__init__: the choice of the reparameterizer                        *)
(***************************************************************************)
Built(class) == [kind |-> "object", class |-> class]

\* faulty variant: only the exact name selects the mixture reparameterizer
vrnn_init_exact(cfg) ==
    LET t == cfg.reparam_type
    IN  IF t = <<"isotropic_gaussian">>
        THEN LET g == gauss_init(cfg.continuous_size)
             IN  IF g.kind = "object" THEN Built("IsotropicGaussian") ELSE g
        ELSE IF t = <<"discrete">> THEN Built("GumbelSoftmax")
        ELSE IF t = <<"beta">> THEN Built("Beta")
        ELSE IF t = <<"mixture">> THEN Built("Mixture")
        ELSE Raised("unknown reparameterization type", t)

\* the if / elif chain of VRNN.__init__
vrnn_init(cfg) ==
    LET t == cfg.reparam_type
    IN  IF t = <<"isotropic_gaussian">>
        THEN LET g == gauss_init(cfg.continuous_size)
             IN  IF g.kind = "object" THEN Built("IsotropicGaussian") ELSE g
        ELSE IF t = <<"discrete">> THEN Built("GumbelSoftmax")
        ELSE IF t = <<"beta">> THEN Built("Beta")
        ELSE IF Contains(<<"mixture">>, t) THEN Built("Mixture")
        ELSE Raised("unknown reparameterization type", t)

\* VRNN(input_shape, kwargs=config)
VRNNConstruct ==
    /\ pc = "unbuilt"
    /\ result' = vrnn_init(config)
    /\ IF result'.kind = "object"
       THEN pc' = "idle" /\ ret' = "ok"
       ELSE pc' = pc /\ ret' = "error"
    /\ op' = "construct"
    /\ UNCHANGED <<memVars, training, rep_training, gumVars, ema, config, input_t,
                   i, decoded, params, training_tmp, calls, steps>>

(***************************************************************************)
(* AbstractVAE: mutual information and loss.  A batch of one sample; a     *)
(* value is the fraction num / den.                                        *)
(***************************************************************************)
LossVals == {0, 1}            \* what nll_fn and kld can return

MutVals == {-3, 0, 2}         \* what reparameterizer.mutual_info can return

Min(a, b) == IF a <= b THEN a ELSE b

Abs(a) == IF a >= 0 THEN a ELSE -a

\* _clamp_mut_info: mut_clamp_strategy_map[strategy.strip().lower()](mut_info)
clamp_mut_info(cfg, m) ==
    LET key == lower(strip(cfg.mut_clamp_strategy))
    IN  IF key = <<"n", "o", "n", "e">> THEN Value(m, 1)
        ELSE IF key = <<"n", "o", "r", "m">> THEN Value(m, Abs(m))
        ELSE IF key = <<"c", "l", "a", "m", "p">>
        THEN Value(Max(-cfg.mut_clamp_value, Min(cfg.mut_clamp_value, m)), 1)
        ELSE Raised("KeyError", key)

\* faulty variant: the strategy is applied whatever the weights are
mut_info_always(cfg, m) == clamp_mut_info(cfg, m)

\* mut_info: zeros unless continuous_mut_info > 0 or discrete_mut_info > 0
mut_info(cfg, m) ==
    IF mi_enabled(cfg) THEN clamp_mut_info(cfg, m) ELSE Value(0, 1)

\* where loss_function can stop with an error before the mutual information
LossRaisePoints == {"none", "nll", "kld"}

ProxyVals == {0, 3}           \* what proxy_layer.loss_function() can return

\* faulty variant: the proxy loss is added to the loss
loss_value_with_proxy(cfg, nll, kld, proxy, mi) ==
    Value((nll + cfg.kl_beta * kld + proxy) * mi.den - mi.num, mi.den)

\* loss = (nll + self.config['kl_beta'] * kld) - mut_info, with mut_info the
\* fraction mi
loss_value(cfg, nll, kld, proxy, mi) ==
    Value((nll + cfg.kl_beta * kld) * mi.den - mi.num, mi.den)

\* AbstractVAE.loss_function: nll, kld (each NaN-checked), the proxy loss,
\* then mut_info; torch.mean of a batch of one is the value itself
loss_function(cfg, nll, kld, proxy, m, raise_at) ==
    IF raise_at # "none" THEN Raised("nan", raise_at)
    ELSE LET mi == mut_info(cfg, m)
         IN  IF mi.kind = "error" THEN mi
             ELSE LET loss == loss_value(cfg, nll, kld, proxy, mi)
                  IN  [kind |-> "loss",
                       loss |-> loss,
                       loss_mean |-> loss,
                       elbo_mean |-> Value(nll + kld, 1),
                       nll_mean |-> Value(nll, 1),
                       kld_mean |-> Value(kld, 1),
                       proxy_mean |-> Value(proxy, 1),
                       mut_info_mean |-> mi]

LossFunction(nll, kld, proxy, m, raise_at) ==
    /\ pc = "idle"
    /\ result' = loss_function(config, nll, kld, proxy, m, raise_at)
    /\ ret' = IF result'.kind = "error" THEN "error" ELSE "ok"
    /\ op' = "loss_function"
    /\ UNCHANGED <<memVars, training, rep_training, gumVars, ema, config, pc,
                   input_t, i, decoded, params, training_tmp, calls, steps>>

(***************************************************************************)
(* VRNN: step, forward, generate_synthetic_samples                         *)
(***************************************************************************)
\* one entry of the call log: the call, its input x, its outputs dec and par, its
\* flag argument, and the buffer length and reparameterizer mode it started from
Ev(call, x, dec, par, flag, buf) ==
    [call |-> call, x |-> x, dec |-> dec, par |-> par, flag |-> flag, buf |-> buf,
     mode |-> rep_training]

NoPar == [x |-> 0, h |-> 0, q_z_given_xhat |-> FALSE]

\* the parameter record of a posterior: a function of the input and of the
\* hidden state the encoder saw (encode reads memory.get_state()[0])
posterior_params(x, st) == [x |-> x, h |-> st[1].h, q_z_given_xhat |-> FALSE]

\* _compute_mi_params: a second posterior pass only if a mutual-info weight > 0
compute_mi_params(par) ==
    IF mi_enabled(config) THEN [par EXCEPT !.q_z_given_xhat = TRUE] ELSE par

\* faulty variant: one reparameterizer call per timestep
vrnn_reparameterize_once(g) ==
    IF config.reparam_type = <<"discrete">>
    THEN gumbel_forward(rep_training, g.iteration, g.tau)
    ELSE g

\* VRNN.reparameterize: the shared reparameterizer is called on the encoder
\* logits and then on the prior logits; only GumbelSoftmax keeps state
vrnn_reparameterize(g) ==
    IF config.reparam_type = <<"discrete">>
    THEN LET r1 == gumbel_forward(rep_training, g.iteration, g.tau)
         IN  gumbel_forward(rep_training, r1.iteration, r1.tau)
    ELSE g

\* params['posterior'] and params['prior'] of VRNN.reparameterize: for
\* GumbelSoftmax each carries 'tau_scalar', self.tau as its call left it
reparameterize_params(g) ==
    IF config.reparam_type = <<"discrete">>
    THEN LET r1 == gumbel_forward(rep_training, g.iteration, g.tau)
             r2 == gumbel_forward(rep_training, r1.iteration, r1.tau)
         IN  [kind |-> "params", posterior |-> [tau_scalar |-> r1.tau],
              prior |-> [tau_scalar |-> r2.tau]]
    ELSE NoResult

\* VRNN.posterior, n times in a row: EMA updates in training mode, then reparameterize
RECURSIVE posterior_gumbel(_, _)
posterior_gumbel(n, g) ==
    IF n = 0 THEN g ELSE posterior_gumbel(n - 1, vrnn_reparameterize(g))

\* faulty variant: the EMAs are fed in evaluation mode as well
posterior_ema_any_mode(n, e) ==
    [e EXCEPT !.encoder_logits = @ + n, !.prior_logits = @ + n]

\* the EMA updates of n posterior passes
posterior_ema(n, e) ==
    IF training
    THEN [e EXCEPT !.encoder_logits = @ + n, !.prior_logits = @ + n]
    ELSE e

\* AbstractVAE.posterior: self.aggregate_posterior(z_logits) in training mode
vae_posterior_ema(e) == IF training THEN [e EXCEPT !.vae = @ + 1] ELSE e

PosteriorEffect(n) ==
    /\ ema' = posterior_ema(n, ema)
    /\ LET g == posterior_gumbel(n, [iteration |-> iteration, tau |-> tau])
       IN  iteration' = g.iteration /\ tau' = g.tau

\* VRNN.posterior called directly: encode reads memory.get_state() and
\* NaN-checks its intermediates before any EMA is touched
VRNNPosterior(raises) ==
    /\ pc = "idle"
    /\ training => ema.encoder_logits < MaxEma
    /\ iteration + 2 <= MaxIter
    /\ op' = "vrnn_posterior"
    /\ IF state = <<>> \/ raises
       THEN /\ ret' = "error"
            /\ result' = IF state = <<>> THEN get_state
                          ELSE Raised("nan", "encode")
            /\ UNCHANGED <<ema, iteration, tau>>
       ELSE /\ ret' = "ok"
            /\ result' = reparameterize_params([iteration |-> iteration, tau |-> tau])
            /\ PosteriorEffect(1)
    /\ UNCHANGED <<memVars, training, rep_training, config, pc, input_t, i,
                   decoded, params, training_tmp, calls, steps>>

\* AbstractVAE.posterior called directly: encode, the EMA in training mode,
\* then one call of the reparameterizer
VAEPosterior ==
    /\ pc = "idle"
    /\ training => ema.vae < MaxEma
    /\ iteration + 1 <= MaxIter
    /\ op' = "vae_posterior" /\ ret' = "ok"
    /\ result' = NoResult
    /\ ema' = vae_posterior_ema(ema)
    /\ IF config.reparam_type = <<"discrete">>
       THEN LET r == gumbel_forward(rep_training, iteration, tau)
            IN  iteration' = r.iteration /\ tau' = r.tau
       ELSE UNCHANGED <<iteration, tau>>
    /\ UNCHANGED <<memVars, training, rep_training, config, pc, input_t, i,
                   decoded, params, training_tmp, calls, steps>>

\* AbstractVAE._compute_mi_params: {**params, 'q_z_given_xhat': ...} after a
\* second posterior pass, only if a mutual-info weight > 0
vae_compute_mi_params(par) ==
    IF mi_enabled(config) THEN [par EXCEPT !.q_z_given_xhat = TRUE] ELSE par

\* AbstractVAE.forward: posterior, decode, _compute_mi_params
VAEForward(x, dec) ==
    /\ pc = "idle"
    /\ training => ema.vae < MaxEma
    /\ iteration + 2 <= MaxIter
    /\ op' = "vae_forward" /\ ret' = "ok"
    /\ result' = [kind |-> "forward", decoded |-> dec,
                  params |-> vae_compute_mi_params([x |-> x, q_z_given_xhat |-> FALSE])]
    /\ ema' = IF mi_enabled(config) THEN vae_posterior_ema(vae_posterior_ema(ema))
              ELSE vae_posterior_ema(ema)
    /\ IF config.reparam_type = <<"discrete">>
       THEN LET r1 == gumbel_forward(rep_training, iteration, tau)
                r2 == gumbel_forward(rep_training, r1.iteration, r1.tau)
                r  == IF mi_enabled(config) THEN r2 ELSE r1
            IN  iteration' = r.iteration /\ tau' = r.tau
       ELSE UNCHANGED <<iteration, tau>>
    /\ input_t' = [is_list |-> FALSE, val |-> <<>>]
    /\ i' = 0 /\ decoded' = <<>> /\ params' = <<>> /\ calls' = <<>>
    /\ UNCHANGED <<memVars, training, rep_training, config, pc, training_tmp,
                   steps>>

\* faulty variant: step asks decode to reset the recurrent state
step_reset_state_always == TRUE

\* step calls self.decode(z_t, produce_output=True): reset_state keeps its default
step_reset_state == FALSE

\* where a step can stop with an error (nan_check_and_break)
RaisePoints == {"none", "encode", "posterior", "decoded"}

\* the effects of VRNN.step up to the point where it returns or raises;
\* npost is the number of posterior passes made when nothing raises
StepEffect(tpl, raise_at, npost) ==
    /\ IF raise_at = "encode"
       THEN UNCHANGED <<ema, iteration, tau>>
       ELSE PosteriorEffect(IF raise_at = "none" THEN npost ELSE 1)
    /\ IF raise_at \in {"encode", "posterior"}
       THEN UNCHANGED <<memVars, steps>>
       ELSE MemStep(IF step_reset_state THEN init_state(FALSE) ELSE state, tpl)

\* the log entries of one step
StepLog(x, tpl, dec, par) ==
    (IF step_reset_state
     THEN <<Ev("init_state", 0, 0, NoPar, FALSE, Len(memory_buffer))>> ELSE <<>>)
    \o <<Ev("step", x, dec, par, FALSE, Len(memory_buffer))>>

\* faulty variant: the loop of forward runs one time too few
forward_range_short == config.max_time_steps - 1

\* range(self.config['max_time_steps'])
forward_range == config.max_time_steps

\* faulty variant: the decoded output replaces the input at every step
next_input_replace(k, decode_i, x) == decode_i

\* input_t = decode_i if i == 0 else decode_i + input_t
next_input(k, decode_i, x) == IF k = 0 THEN decode_i ELSE decode_i + x

\* forward's argument: the single tensor v, or a list of max_time_steps
\* distinct tensors
ForwardInput(is_list, v) ==
    IF is_list
    THEN [is_list |-> TRUE, val |-> [k \in 1..config.max_time_steps |-> k]]
    ELSE [is_list |-> FALSE, val |-> <<v>>]

\* VRNN.forward up to the loop: line 529 reads input_t.is_cuda, which a list
\* does not have
ForwardBegin(is_list, v) ==
    /\ pc = "idle"
    /\ Len(memory_buffer) + config.max_time_steps <= MaxBuf
    /\ ema.encoder_logits + config.max_time_steps <= MaxEma
    /\ op' = "forward"
    /\ input_t' = ForwardInput(is_list, v)
    /\ decoded' = <<>> /\ params' = <<>> /\ i' = 0
    /\ result' = NoResult
    /\ IF is_list
       THEN /\ ret' = "error"
            /\ calls' = <<>>
            /\ UNCHANGED <<state, pc>>
       ELSE /\ ret' = "running"
            /\ state' = init_state(FALSE)
            /\ calls' = <<Ev("init_state", 0, 0, NoPar, FALSE, Len(memory_buffer))>>
            /\ pc' = "forward"
    /\ UNCHANGED <<memory_buffer, outputs, forwarded, training, rep_training,
                   gumVars, ema, config, training_tmp, steps>>

\* one iteration of the loop of forward
ForwardStep(tpl, dec, raise_at) ==
    /\ pc = "forward"
    /\ i < forward_range
    /\ LET x   == IF input_t.is_list THEN input_t.val[i + 1] ELSE input_t.val[1]
           par == compute_mi_params(posterior_params(x, state))
       IN  /\ StepEffect(tpl, raise_at, IF mi_enabled(config) THEN 2 ELSE 1)
           /\ IF raise_at = "none"
              THEN /\ input_t' = IF input_t.is_list THEN input_t
                                 ELSE [input_t EXCEPT !.val = <<next_input(i, dec, x)>>]
                   /\ decoded' = Append(decoded, dec)
                   /\ params' = Append(params, par)
                   /\ calls' = calls \o StepLog(x, tpl, dec, par)
                   /\ i' = i + 1
                   /\ UNCHANGED <<pc, ret>>
              ELSE /\ pc' = "idle" /\ ret' = "error"
                   /\ UNCHANGED <<input_t, decoded, params, calls, i>>
    /\ UNCHANGED <<training, rep_training, config, training_tmp, op, result>>

\* the end of forward: self.memory.clear(); return decoded, params
ForwardEnd ==
    /\ pc = "forward"
    /\ i >= forward_range
    /\ memory_buffer' = clear(memory_buffer)
    /\ steps' = <<>>
    /\ calls' = Append(calls, Ev("clear", 0, 0, NoPar, FALSE, Len(memory_buffer)))
    /\ pc' = "idle" /\ ret' = "ok"
    /\ UNCHANGED <<state, outputs, forwarded, training, rep_training, gumVars,
                   ema, config, input_t, i, decoded, params, training_tmp, op,
                   result>>

\* the aggregate-posterior branch shared by both generate_synthetic_samples:
\* training_tmp = reparameterizer.training; train(False); reparameterize;
\* train(training_tmp).  The restore is skipped when the reparameterizer raises.
AggregateBranch(raises) ==
    /\ training_tmp' = rep_training
    /\ rep_training' = IF raises THEN FALSE ELSE rep_training
    /\ IF config.reparam_type = <<"discrete">> /\ ~raises
       THEN LET r == gumbel_forward(FALSE, iteration, tau)
            IN  iteration' = r.iteration /\ tau' = r.tau
       ELSE UNCHANGED <<iteration, tau>>

\* faulty variant: the rollout feeds back as forward's single-input branch
generate_next_as_forward(k, dec_output_tp1, dec_output_t) ==
    IF k = 0 THEN dec_output_tp1 ELSE dec_output_tp1 + dec_output_t

\* dec_output_t = dec_output_t + dec_output_tp1, in every iteration k
generate_next(k, dec_output_tp1, dec_output_t) == dec_output_t + dec_output_tp1

\* VRNN.generate_synthetic_samples up to its loop
GenBegin(reset_state, use_aggregate_posterior, raises, dec) ==
    /\ pc = "idle"
    /\ Len(memory_buffer) + config.max_time_steps - 1 <= MaxBuf
    /\ ema.encoder_logits + config.max_time_steps - 1 <= MaxEma
    /\ iteration + 1 <= MaxIter
    /\ op' = "generate"
    /\ state' = IF reset_state THEN init_state(FALSE) ELSE state
    /\ i' = 0 /\ params' = <<>>
    /\ calls' = <<Ev("generate", 0, 0, NoPar, use_aggregate_posterior,
                     Len(memory_buffer))>>
    /\ IF state' = <<>>
       THEN \* get_state: assert hasattr(self, 'state')
            /\ ret' = "error"
            /\ decoded' = <<>>
            /\ input_t' = [is_list |-> FALSE, val |-> <<>>]
            /\ UNCHANGED <<pc, rep_training, training_tmp, iteration, tau>>
       ELSE /\ IF use_aggregate_posterior
               THEN AggregateBranch(raises)
               ELSE UNCHANGED <<rep_training, training_tmp, iteration, tau>>
            /\ IF use_aggregate_posterior /\ raises
               THEN /\ ret' = "error"
                    /\ decoded' = <<>>
                    /\ input_t' = [is_list |-> FALSE, val |-> <<>>]
                    /\ UNCHANGED pc
               ELSE /\ ret' = "running"
                    /\ pc' = "generate"
                    /\ input_t' = [is_list |-> FALSE, val |-> <<dec>>]
                    /\ decoded' = <<dec>>
    /\ UNCHANGED <<memory_buffer, outputs, forwarded, training, ema, config,
                   steps, result>>

\* one iteration of the loop of generate_synthetic_samples
GenStep(tpl, dec, raise_at) ==
    /\ pc = "generate"
    /\ i < config.max_time_steps - 1
    /\ LET x   == input_t.val[1]
           par == posterior_params(x, state)
       IN  /\ StepEffect(tpl, raise_at, 1)
           /\ IF raise_at = "none"
              THEN /\ input_t' = [input_t EXCEPT !.val = <<generate_next(i, dec, x)>>]
                   /\ decoded' = Append(decoded, generate_next(i, dec, x))
                   /\ calls' = calls \o StepLog(x, tpl, dec, par)
                   /\ i' = i + 1
                   /\ UNCHANGED <<pc, ret>>
              ELSE /\ pc' = "idle" /\ ret' = "error"
                   /\ UNCHANGED <<input_t, decoded, calls, i>>
    /\ UNCHANGED <<training, rep_training, config, params, training_tmp, op,
                   result>>

\* the end of generate_synthetic_samples: return torch.cat(decoded_list, 0)
GenEnd ==
    /\ pc = "generate"
    /\ i >= config.max_time_steps - 1
    /\ pc' = "idle" /\ ret' = "ok"
    /\ UNCHANGED <<memVars, training, rep_training, gumVars, ema, config,
                   input_t, i, decoded, params, training_tmp, op, calls, steps,
                   result>>

\* AbstractVAE.generate_synthetic_samples
VAEGenerate(use_aggregate_posterior, raises) ==
    /\ pc = "idle"
    /\ iteration + 1 <= MaxIter
    /\ op' = "vae_generate"
    /\ calls' = <<Ev("vae_generate", 0, 0, NoPar, use_aggregate_posterior,
                     Len(memory_buffer))>>
    /\ IF use_aggregate_posterior
       THEN AggregateBranch(raises)
       ELSE UNCHANGED <<rep_training, training_tmp, iteration, tau>>
    /\ ret' = IF use_aggregate_posterior /\ raises THEN "error" ELSE "ok"
    /\ input_t' = [is_list |-> FALSE, val |-> <<>>]
    /\ i' = 0 /\ decoded' = <<>> /\ params' = <<>>
    /\ UNCHANGED <<memVars, training, ema, config, pc, steps, result>>

(***************************************************************************)
(* Initial state: the objects right after construction                     *)
(***************************************************************************)
Configs ==
    [max_time_steps : 1..MaxSteps,
     reparam_type : TypeNames,
     continuous_size : 1..MaxWidth,
     mut_clamp_strategy : StrategyNames,
     mut_clamp_value : {1},
     kl_beta : {1, 2},
     use_noisy_rnn_state : BOOLEAN,
     continuous_mut_info : MiWeights,
     discrete_mut_info : MiWeights]

\* configurations of the two reparameterizers modelled in full, with the
\* identity clamp strategy
PlainConfigs ==
    {c \in Configs : /\ c.reparam_type \in {<<"isotropic_gaussian">>, <<"discrete">>}
                     /\ c.mut_clamp_strategy = <<"n", "o", "n", "e">>
                     /\ c.continuous_mut_info = 0 /\ c.discrete_mut_info = 0
                     /\ c.kl_beta = 1}

(***************************************************************************)
(* VRNN.decode called directly                                             *)
(***************************************************************************)
\* faulty variant: the memory is stepped only when an output is produced
decode_runs_memory_on_output(produce_output) == produce_output

\* self.memory(input_t.contiguous(), reset_state=reset_state) is outside the
\* `if produce_output:` block
decode_runs_memory(produce_output) == TRUE

\* dec_t: None unless produce_output, then self.decoder(dec_input_t)
decode_output(produce_output, dec) == IF produce_output THEN <<dec>> ELSE <<>>

VRNNDecode(produce_output, reset_state, tpl, dec) ==
    /\ pc = "idle"
    /\ get_state.kind = "returned"
    /\ Len(memory_buffer) < MaxBuf
    /\ IF decode_runs_memory(produce_output)
       THEN MemStep(IF reset_state THEN init_state(FALSE) ELSE state, tpl)
       ELSE UNCHANGED <<memVars, steps>>
    /\ result' = Returned(decode_output(produce_output, dec))
    /\ calls' = <<Ev("decode", 0, 0, NoPar, produce_output, Len(memory_buffer))>>
    /\ op' = "decode" /\ ret' = "ok"
    /\ UNCHANGED <<training, rep_training, gumVars, ema, config, pc, input_t, i,
                   decoded, params, training_tmp>>

\* self.memory.get_state() raises before the memory is stepped
VRNNDecodeNoState ==
    /\ pc = "idle"
    /\ get_state.kind = "error"
    /\ result' = get_state
    /\ calls' = <<>>
    /\ op' = "decode" /\ ret' = "error"
    /\ UNCHANGED <<memVars, steps, training, rep_training, gumVars, ema, config,
                   pc, input_t, i, decoded, params, training_tmp>>

(***************************************************************************)
(* VRNN._ensure_same_size.  A tensor is its size (batch, channels, height, *)
(* width); torch.Size is a tuple and compares as one.                      *)
(***************************************************************************)
SpatialVals == {16, 32}

Sizes == {<<1, 3, h, w>> : h, w \in SpatialVals}

PairCounts == {1, 2}

SizeLists == UNION {[1..n -> Sizes] : n \in PairCounts}

\* a > b on tuples: decided by the first position where they differ
size_gt(a, b) ==
    \E k \in 1..Len(a) : /\ a[k] > b[k]
                          /\ \A j \in 1..(k - 1) : a[j] = b[j]

\* F.upsample(t, size=tuple(larger_size[2:])): any target size is produced
upsample(t, larger_size) == <<t[1], t[2], larger_size[3], larger_size[4]>>

ensure_same_size(prediction_list, target_list) ==
    IF Len(prediction_list) # Len(target_list)
    THEN Raised("AssertionError", <<Len(prediction_list), Len(target_list)>>)
    ELSE Returned(
           [prediction_list |->
              [k \in 1..Len(target_list) |->
                 IF /\ prediction_list[k] # target_list[k]
                    /\ ~size_gt(prediction_list[k], target_list[k])
                 THEN upsample(prediction_list[k], target_list[k])
                 ELSE prediction_list[k]],
            target_list |->
              [k \in 1..Len(target_list) |->
                 IF /\ prediction_list[k] # target_list[k]
                    /\ size_gt(prediction_list[k], target_list[k])
                 THEN upsample(target_list[k], prediction_list[k])
                 ELSE target_list[k]]])

EnsureSameSize(prediction_list, target_list) ==
    /\ pc = "idle"
    /\ result' = ensure_same_size(prediction_list, target_list)
    /\ calls' = <<Ev("_ensure_same_size", target_list, prediction_list, NoPar,
                     FALSE, 0)>>
    /\ ret' = IF result'.kind = "error" THEN "error" ELSE "ok"
    /\ op' = "_ensure_same_size"
    /\ UNCHANGED <<memVars, training, rep_training, gumVars, ema, config, pc,
                   input_t, i, decoded, params, training_tmp, steps>>

(***************************************************************************)
(* VRNN.loss_function.  A container entry is a record: which part of the   *)
(* argument it is ('item' of a list, 'row' of a tensor, the 'whole'        *)
(* tensor), its index, and the denominator of the scale applied to it.     *)
(***************************************************************************)
ListOf(n)   == [is_list |-> TRUE,
                val |-> [k \in 1..n |-> [part |-> "item", index |-> k, den |-> 1]]]

\* a tensor of batch size n; iterating it yields its rows
TensorOf(n) == [is_list |-> FALSE,
                val |-> [k \in 1..n |-> [part |-> "row", index |-> k, den |-> 1]]]

ReconOf(n)  == [k \in 1..n |-> [index |-> k, den |-> 1]]

XContainers == {ListOf(n) : n \in 1..MaxSteps} \cup {TensorOf(n) : n \in 1..MaxSteps}

LossKeys == {"loss", "loss_mean", "elbo_mean", "nll_mean", "kld_mean",
             "proxy_mean", "mut_info_mean"}

frac_add(a, b) == Value(a.num * b.den + b.num * a.den, a.den * b.den)

\* the containers the loop runs over: a non-list x whose length differs from
\* the number of reconstructions is replaced by that many scaled copies,
\* and the reconstructions by scaled copies of the last one
loss_containers(recon_x_container, x_container) ==
    LET n == Len(recon_x_container)
    IN  IF ~x_container.is_list /\ Len(x_container.val) # n
        THEN [x |-> [k \in 1..n |-> [part |-> "whole", index |-> 0, den |-> n]],
              recon |-> [k \in 1..n |-> [index |-> recon_x_container[n].index,
                                         den |-> n]]]
        ELSE [x |-> x_container.val, recon |-> recon_x_container]

\* the number of triples zip(recon_x_container, x_container, params_map) yields
zip_len(recon_x_container, x_container) ==
    LET c == loss_containers(recon_x_container, x_container)
    IN  Min(Len(c.recon), Len(c.x))

\* _add_loss_map
add_loss_map(loss_t, loss_aggregate_map) ==
    IF loss_aggregate_map.kind = "none"
    THEN [k \in LossKeys \cup {"kind", "count"} |->
             IF k = "kind" THEN "aggregate"
             ELSE IF k = "count" THEN 1 ELSE loss_t[k]]
    ELSE [k \in LossKeys \cup {"kind", "count"} |->
             IF k = "kind" THEN "aggregate"
             ELSE IF k = "count" THEN loss_aggregate_map.count + 1
             ELSE frac_add(loss_aggregate_map[k], loss_t[k])]

\* faulty variant: the sums are returned undivided
mean_map_undivided(loss_aggregate_map) ==
    [k \in LossKeys \cup {"kind", "count"} |->
        IF k = "kind" THEN "loss" ELSE loss_aggregate_map[k]]

\* _mean_map: every key but 'count' divided by 'count'
mean_map(loss_aggregate_map) ==
    [k \in LossKeys \cup {"kind", "count"} |->
        IF k = "kind" THEN "loss"
        ELSE IF k = "count" THEN loss_aggregate_map.count
        ELSE Value(loss_aggregate_map[k].num,
                   loss_aggregate_map[k].den * loss_aggregate_map.count)]

\* loss_function(recon_x_container, x_container, params_map): the assert
VRNNLossBegin(n_recon, x_container, n_params) ==
    /\ pc = "idle"
    /\ op' = "vrnn_loss_function"
    /\ input_t' = x_container
    /\ decoded' = ReconOf(n_recon)
    /\ params' = [k \in 1..n_params |-> NoPar]
    /\ i' = 0
    /\ calls' = <<>>
    /\ IF n_recon # n_params
       THEN /\ result' = Raised("AssertionError", n_params)
            /\ ret' = "error"
            /\ pc' = pc
       ELSE /\ result' = NoResult
            /\ ret' = "running"
            /\ pc' = "loss"
    /\ UNCHANGED <<memVars, training, rep_training, gumVars, ema, config,
                   training_tmp, steps>>

\* one iteration of the loop: the base loss of the next triple, added to the
\* aggregate; nll_fn returns the same value for the same (recon_x, x)
VRNNLossStep(nll, kld, raise_at) ==
    /\ pc = "loss"
    /\ i < zip_len(decoded, input_t)
    /\ LET c == loss_containers(decoded, input_t)
           same == i > 0 /\ c.recon[i + 1] = c.recon[i] /\ c.x[i + 1] = c.x[i]
           nll_t == IF same THEN calls[i].par.nll_mean.num ELSE nll
           loss_t == loss_function(config, nll_t, kld, 0, 0, raise_at)
       IN  IF loss_t.kind = "error"
           THEN /\ result' = loss_t
                /\ ret' = "error"
                /\ pc' = "idle"
                /\ UNCHANGED <<i, calls>>
           ELSE /\ result' = add_loss_map(loss_t, result)
                /\ calls' = Append(calls, Ev("base_loss", c.x[i + 1], c.recon[i + 1],
                                             loss_t, FALSE, 0))
                /\ i' = i + 1
                /\ UNCHANGED <<ret, pc>>
    /\ UNCHANGED <<memVars, training, rep_training, gumVars, ema, config,
                   input_t, decoded, params, training_tmp, op, steps>>

\* return self._mean_map(loss_aggregate_map)
VRNNLossEnd ==
    /\ pc = "loss"
    /\ i = zip_len(decoded, input_t)
    /\ result' = mean_map(result)
    /\ ret' = "ok"
    /\ pc' = "idle"
    /\ UNCHANGED <<memVars, training, rep_training, gumVars, ema, config,
                   input_t, i, decoded, params, training_tmp, op, calls, steps>>

(***************************************************************************)
(* VRNN.kld.  A use_prior_kl setting is written as its Python literal.     *)
(***************************************************************************)
PriorKlSettings == {"True", "False", "1", "0", "'true'", "None"}

KlVals == {0, 1, 2}           \* what reparameterizer.kl can return

\* bool(v)
truthy(v) == v \in {"True", "1", "'true'"}

\* faulty variant: every truthy setting adds the prior's own KL
use_prior_kl_truthy(cfg) == truthy(cfg.use_prior_kl)

\* self.config['use_prior_kl'] is True
use_prior_kl_is_true(cfg) == cfg.use_prior_kl = "True"

\* the calls of reparameterizer.kl made by kld, in order: x is the number of
\* distributions passed, dec the value returned
kld_calls(cfg, kl_two, kl_prior) ==
    (IF use_prior_kl_is_true(cfg)
     THEN <<Ev("kl", 1, kl_prior, NoPar, FALSE, 0)>> ELSE <<>>)
    \o <<Ev("kl", 2, kl_two, NoPar, FALSE, 0)>>

\* kl(dist['posterior'], dist['prior']) + prior_kl
vrnn_kld(cfg, kl_two, kl_prior) ==
    kl_two + (IF use_prior_kl_is_true(cfg) THEN kl_prior ELSE 0)

VRNNKld(kl_two, kl_prior) ==
    /\ pc = "idle"
    /\ op' = "kld"
    /\ ret' = "ok"
    /\ calls' = kld_calls(config, kl_two, kl_prior)
    /\ result' = Value(vrnn_kld(config, kl_two, kl_prior), 1)
    /\ input_t' = [is_list |-> FALSE, val |-> <<>>]
    /\ i' = 0 /\ decoded' = <<>> /\ params' = <<>>
    /\ UNCHANGED <<memVars, training, rep_training, gumVars, ema, config, pc,
                   training_tmp, steps>>

InitFields ==
    /\ memory_buffer = <<>>
    /\ state = <<>>
    /\ outputs = <<>>
    /\ training = TRUE
    /\ rep_training = TRUE
    /\ ema = [encoder_logits |-> 0, prior_logits |-> 0, vae |-> 0]
    /\ input_t = [is_list |-> FALSE, val |-> <<>>]
    /\ i = 0
    /\ decoded = <<>>
    /\ params = <<>>
    /\ training_tmp = TRUE
    /\ ret = "ok"
    /\ calls = <<>>
    /\ steps = <<>>
    /\ forwarded = FALSE
    /\ result = NoResult

\* the constructors have run
InitObjects ==
    /\ InitFields
    /\ pc = "idle"
    /\ op = "construct"

\* GumbelSoftmax.__init__: self.iteration = 0, self.tau = self.tau0
InitCommon ==
    /\ InitObjects
    /\ iteration = 0
    /\ tau = tau0

InitMem ==
    /\ InitCommon
    /\ config \in {c \in PlainConfigs : c.reparam_type = <<"isotropic_gaussian">>
                                   /\ c.max_time_steps = 1 /\ ~mi_enabled(c)
                                   /\ c.continuous_size = 2}

NextMem ==
    \/ \E o \in BOOLEAN : MemInitState(o)
    \/ \E r \in BOOLEAN, tpl \in CellOut : MemForward(r, tpl)
    \/ MemForwardNoState
    \/ MemClear
    \/ MemGetState
    \/ MemGetOutput
    \/ MemGetMergedMemory
    \/ MemGetFinalMemory
    \/ \E m \in BOOLEAN : SetTraining(m)

SpecMem == InitMem /\ [][NextMem]_vars

NextDecode ==
    \/ \E o \in BOOLEAN : MemInitState(o)
    \/ \E p, r \in BOOLEAN, tpl \in CellOut, dec \in DecVals : VRNNDecode(p, r, tpl, dec)
    \/ VRNNDecodeNoState
    \/ MemClear

SpecDecode == InitMem /\ [][NextDecode]_vars

NextResize ==
    \E prediction_list, target_list \in SizeLists :
        EnsureSameSize(prediction_list, target_list)

SpecResize == InitMem /\ [][NextResize]_vars

InitGumbel ==
    /\ InitCommon
    /\ config \in {c \in PlainConfigs : c.reparam_type = <<"discrete">>
                                   /\ c.max_time_steps = 1
                                   /\ ~c.use_noisy_rnn_state /\ ~mi_enabled(c)
                                   /\ c.continuous_size = 2}

NextGumbel ==
    \/ \E x \in LogitVals, y \in SoftSamples : GumbelForward(x, y)
    \/ GumbelPrior
    \/ \E m \in BOOLEAN : RepTrain(m)
    \/ \E m \in BOOLEAN : SetTraining(m)

SpecGumbel == InitGumbel /\ [][NextGumbel]_vars

\* the reparameterizer at construction, or after LateStart training-mode
\* forward calls
InitAnneal ==
    /\ InitObjects
    /\ config \in {c \in PlainConfigs : c.reparam_type = <<"discrete">>
                                   /\ c.max_time_steps = 1
                                   /\ ~c.use_noisy_rnn_state /\ ~mi_enabled(c)
                                   /\ c.continuous_size = 2}
    /\ iteration \in {0, LateStart}
    /\ tau = IF iteration = 0 THEN tau0 ELSE tau_after(iteration)

SpecAnneal == InitAnneal /\ [][NextGumbel]_vars

\* a configuration before the reparameterizer is constructed from it
InitGauss ==
    /\ InitFields
    /\ pc = "unbuilt"
    /\ op = "none"
    /\ iteration = 0
    /\ tau = tau0
    /\ config \in {c \in PlainConfigs : c.reparam_type = <<"isotropic_gaussian">>
                                   /\ c.max_time_steps = 1
                                   /\ ~c.use_noisy_rnn_state /\ ~mi_enabled(c)}

NextGauss ==
    \/ GaussConstruct
    \/ \E l \in Tensors, d \in (IF rep_training THEN Noises ELSE {UnreadNoise}) :
          GaussForward(l, d)
    \/ \E m \in BOOLEAN : RepTrain(m)

SpecGauss == InitGauss /\ [][NextGauss]_vars

InitPosterior ==
    /\ InitCommon
    /\ config \in {c \in PlainConfigs : c.max_time_steps = 1
                                        /\ ~c.use_noisy_rnn_state /\ ~mi_enabled(c)
                                        /\ c.continuous_size = 2}

NextPosterior ==
    \/ \E e \in BOOLEAN : VRNNPosterior(e)
    \/ VAEPosterior
    \/ \E o \in BOOLEAN : MemInitState(o)
    \/ \E m \in BOOLEAN : SetTraining(m)
    \/ \E m \in BOOLEAN : RepTrain(m)

SpecPosterior == InitPosterior /\ [][NextPosterior]_vars

\* any configuration, before the model is constructed from it
InitConfig ==
    /\ InitFields
    /\ pc = "unbuilt"
    /\ op = "none"
    /\ iteration = 0
    /\ tau = tau0
    /\ config \in {c \in Configs : c.max_time_steps = 1 /\ ~c.use_noisy_rnn_state
                                   /\ c.continuous_size \in {1, 2}}

NextConfig ==
    \/ VRNNConstruct
    \/ \E nll, kld \in LossVals, proxy \in ProxyVals, m \in MutVals,
          at \in LossRaisePoints :
          LossFunction(nll, kld, proxy, m, at)

SpecConfig == InitConfig /\ [][NextConfig]_vars

InitVRNN ==
    /\ InitCommon
    /\ config \in {c \in PlainConfigs : c.reparam_type = <<"isotropic_gaussian">>
                                   /\ ~c.use_noisy_rnn_state /\ ~mi_enabled(c)
                                   /\ c.continuous_size = 2}

\* calls that run to completion
ForwardBeginTensor(v) == ForwardBegin(FALSE, v)

GenBeginWithState(reset_state, use_aggregate_posterior, dec) ==
    /\ reset_state \/ state # <<>>
    /\ GenBegin(reset_state, use_aggregate_posterior, FALSE, dec)

NextCompleted ==
    \/ \E v \in InVals : ForwardBeginTensor(v)
    \/ \E tpl \in CellOut, dec \in DecVals : ForwardStep(tpl, dec, "none")
    \/ ForwardEnd
    \/ \E r, a \in BOOLEAN, dec \in DecVals : GenBeginWithState(r, a, dec)
    \/ \E tpl \in CellOut, dec \in DecVals : GenStep(tpl, dec, "none")
    \/ GenEnd

SpecCompleted == InitVRNN /\ [][NextCompleted]_vars

NextVRNN ==
    \/ \E l \in BOOLEAN, v \in InVals : ForwardBegin(l, v)
    \/ \E tpl \in CellOut, dec \in DecVals, at \in RaisePoints : ForwardStep(tpl, dec, at)
    \/ ForwardEnd
    \/ \E r, a, e \in BOOLEAN, dec \in DecVals : GenBegin(r, a, e, dec)
    \/ \E tpl \in CellOut, dec \in DecVals, at \in RaisePoints : GenStep(tpl, dec, at)
    \/ GenEnd
    \/ \E a, e \in BOOLEAN : VAEGenerate(a, e)
    \/ \E m \in BOOLEAN : SetTraining(m)

SpecVRNN == InitVRNN /\ [][NextVRNN]_vars

\* a model with any setting of the two mutual-information weights
InitMI ==
    /\ InitCommon
    /\ config \in {c \in Configs : /\ c.reparam_type = <<"isotropic_gaussian">>
                                   /\ c.mut_clamp_strategy = <<"n", "o", "n", "e">>
                                   /\ c.max_time_steps <= 2
                                   /\ c.kl_beta = 1
                                   /\ ~c.use_noisy_rnn_state
                                   /\ c.continuous_size = 2}

NextMI ==
    \/ \E v \in InVals : ForwardBeginTensor(v)
    \/ \E tpl \in CellOut, dec \in DecVals : ForwardStep(tpl, dec, "none")
    \/ ForwardEnd
    \/ \E x \in InVals, dec \in DecVals : VAEForward(x, dec)
    \/ \E m \in BOOLEAN : SetTraining(m)

SpecMI == InitMI /\ [][NextMI]_vars

LossConfigs ==
    {c @@ [use_prior_kl |-> v] :
        c \in {d \in PlainConfigs : /\ d.reparam_type = <<"isotropic_gaussian">>
                                     /\ d.max_time_steps = 1
                                     /\ ~d.use_noisy_rnn_state
                                     /\ d.continuous_size = 2},
        v \in PriorKlSettings}

InitLoss ==
    /\ InitCommon
    /\ config \in LossConfigs

NextLoss ==
    \/ \E n_recon, n_params \in 1..MaxSteps, x \in XContainers :
          VRNNLossBegin(n_recon, x, n_params)
    \/ \E nll, kld \in LossVals, at \in LossRaisePoints : VRNNLossStep(nll, kld, at)
    \/ VRNNLossEnd
    \/ \E kl_two, kl_prior \in KlVals : VRNNKld(kl_two, kl_prior)

SpecLoss == InitLoss /\ [][NextLoss]_vars

(***************************************************************************)
(* C1: the history buffer holds exactly one entry per VRNNMemory.forward   *)
(* call made since the buffer was last empty (construction or clear()),    *)
(* with or without reset_state, and it is empty right after clear().       *)
(***************************************************************************)
BufferCountsForwards ==
    /\ Len(memory_buffer) = Len(steps)
    /\ (op = "clear" => Len(memory_buffer) = 0)

BufferCountsForwardsWitness ==
    /\ op = "mem_forward" /\ ret = "ok"
    /\ Len(steps) = 3
    /\ Len(memory_buffer) = 3

(***************************************************************************)
(* C2: after N >= 1 forward calls without clearing, get_final_memory()     *)
(* is the hidden state returned by the N-th (latest) recurrent step.       *)
(***************************************************************************)
FinalMemoryIsLastHidden ==
    Len(steps) >= 1 => get_final_memory = steps[Len(steps)].state.h

FinalMemoryIsLastHiddenWitness ==
    /\ Len(steps) = 3
    /\ steps[1].state.h = 1 /\ steps[3].state.h = 2
    /\ get_final_memory = 2

(***************************************************************************)
(* VRNN.forward has returned normally                                      *)
(***************************************************************************)
ForwardReturned == pc = "idle" /\ op = "forward" /\ ret = "ok"

StepIndices == {k \in 1..Len(calls) : calls[k].call = "step"}

(***************************************************************************)
(* C3: a forward call that returns has re-initialized the memory state     *)
(* exactly once, before the first timestep, has then made exactly          *)
(* max_time_steps calls to step, and returns decoded and params lists of   *)
(* length max_time_steps whose entry i was produced by timestep i.         *)
(***************************************************************************)
ForwardUnrollsFixedSteps ==
    ForwardReturned =>
        LET T == config.max_time_steps
        IN  /\ Len(calls) = T + 2
            /\ calls[1].call = "init_state"
            /\ \A k \in 2..(T + 1) : calls[k].call = "step"
            /\ Cardinality({k \in 1..Len(calls) : calls[k].call = "init_state"}) = 1
            /\ Len(decoded) = T /\ Len(params) = T
            /\ \A k \in 1..T : decoded[k] = calls[k + 1].dec
                               /\ params[k] = calls[k + 1].par

ForwardUnrollsFixedStepsWitness ==
    /\ ForwardReturned
    /\ config.max_time_steps = 3
    /\ decoded = <<1, 0, 1>>
    /\ Cardinality(StepIndices) = 3

(***************************************************************************)
(* C4: whenever forward returns, the history buffer is empty, whatever it  *)
(* held before the call and however many timesteps were unrolled.          *)
(***************************************************************************)
BufferEmptyAfterForward ==
    ForwardReturned => Len(memory_buffer) = 0

BufferEmptyAfterForwardWitness ==
    /\ ForwardReturned
    /\ calls[1].buf >= 1
    /\ config.max_time_steps >= 2
    /\ Len(memory_buffer) = 0

(***************************************************************************)
(* C5: after any sequence of completed forward and                         *)
(* generate_synthetic_samples calls the buffer length never exceeds        *)
(* max_time_steps and is 0 between sequences.                              *)
(***************************************************************************)
BufferBoundedAcrossSequences ==
    /\ Len(memory_buffer) <= config.max_time_steps
    /\ (pc = "idle" => Len(memory_buffer) = 0)

(***************************************************************************)
(* C6: forward given a list of max_time_steps distinct inputs completes    *)
(* without error and timestep i steps on input_t[i].                       *)
(***************************************************************************)
ListInputSteppedInOrder ==
    (pc = "idle" /\ op = "forward" /\ input_t.is_list) =>
        /\ ret = "ok"
        /\ \A k \in 1..config.max_time_steps :
              calls[k + 1].call = "step" /\ calls[k + 1].x = input_t.val[k]

(***************************************************************************)
(* C7: forward given a single input feeds the decoded output back          *)
(* additively.  NextInputAfter(k) is the input left for the next timestep  *)
(* by the step logged at position k.                                       *)
(***************************************************************************)
NextInputAfter(k) ==
    IF k + 1 <= Len(calls) /\ calls[k + 1].call = "step"
    THEN calls[k + 1].x ELSE input_t.val[1]

\* C7 as claimed: after every timestep, timestep 0 included, the next input is
\* the input of that timestep plus its decoded output
FeedbackAdditiveFromStepZero ==
    (op = "forward" /\ ~input_t.is_list) =>
        \A k \in StepIndices : NextInputAfter(k) = calls[k].x + calls[k].dec

\* C7 as amended: after timestep 0 the next input is the decoded output alone;
\* after every timestep i >= 1 it is the input of timestep i plus its decoded output
FeedbackAdditiveAfterStepZero ==
    (op = "forward" /\ ~input_t.is_list) =>
        \A k \in StepIndices :
            NextInputAfter(k) = IF k = 2 THEN calls[k].dec
                                ELSE calls[k].x + calls[k].dec

FeedbackAdditiveAfterStepZeroWitness ==
    /\ ForwardReturned /\ ~input_t.is_list
    /\ config.max_time_steps = 3
    /\ calls[2].x = 2 /\ calls[2].dec = 1
    /\ calls[3].x = 1 /\ calls[3].dec = 1
    /\ calls[4].x = 2

(***************************************************************************)
(* C8: on every exit of an aggregate-posterior generation call, also when  *)
(* the reparameterizer raises, the reparameterizer's training flag equals  *)
(* its value immediately before the call.                                  *)
(***************************************************************************)
TrainingFlagRestoredOnExit ==
    (/\ pc = "idle"
     /\ op \in {"generate", "vae_generate"}
     /\ calls # <<>>
     /\ calls[1].flag) => rep_training = calls[1].mode

(***************************************************************************)
(* C9: a forward call changes tau only in training mode at a step counter  *)
(* that is a positive multiple of 10, and then tau becomes                 *)
(* max(tau0 * exp(-anneal_rate * step), min_temp); every other forward     *)
(* call leaves tau unchanged.                                              *)
(***************************************************************************)
AnnealTrigger == rep_training /\ iteration > 0 /\ iteration % 10 = 0

TauChangesOnlyOnAnneal ==
    [][op' = "gumbel_forward" =>
          /\ (tau' # tau => AnnealTrigger)
          /\ (AnnealTrigger =>
                tau' = Max(FixMul(tau0, np_exp(-(anneal_rate * iteration))), min_temp))
          /\ (~AnnealTrigger => tau' = tau)]_vars

TauChangesOnlyOnAnnealWitness ==
    /\ op = "gumbel_forward"
    /\ iteration = 21
    /\ tau < tau0 /\ tau > min_temp
    /\ tau = FixMul(tau0, np_exp(-(anneal_rate * 20)))

(***************************************************************************)
(* C10: the step counter starts at 0, every forward call adds exactly 1 to *)
(* it in training and in eval mode, whether or not annealing triggered,    *)
(* and no other operation changes it.                                      *)
(***************************************************************************)
IterationCountsForwards ==
    /\ iteration = 0
    /\ [][IF op' = "gumbel_forward" THEN iteration' = iteration + 1
                                    ELSE iteration' = iteration]_vars

IterationCountsForwardsWitness ==
    /\ op = "gumbel_forward"
    /\ ~rep_training
    /\ iteration = 11
    /\ tau = tau0

(***************************************************************************)
(* C11: over any sequence of forward calls, in training or evaluation      *)
(* mode in any order, tau never increases from one call to the next, it    *)
(* always lies between min_temp and tau0, and once it has reached          *)
(* min_temp it stays there.                                                *)
(***************************************************************************)
TauAnnealsMonotonically ==
    /\ [](min_temp <= tau /\ tau <= tau0)
    /\ [][tau' <= tau /\ (tau = min_temp => tau' = min_temp)]_vars

TauAnnealsMonotonicallyWitness ==
    /\ op = "gumbel_forward"
    /\ tau = min_temp
    /\ iteration > LateStart + 2 * anneal_interval

(***************************************************************************)
(* C12: GumbelSoftmax.forward returns the soft sample as its first result  *)
(* in training mode and the hard sample in evaluation mode; in both modes  *)
(* the returned record holds the soft sample under 'z' and, with it, the   *)
(* hard sample 'z_hard' (ones at the largest soft entries), the            *)
(* log-softmax of the logits 'log_q_z', the logits and the current tau.    *)
(***************************************************************************)
ForwardReturnsSampleOfMode ==
    op = "gumbel_forward" =>
        LET z == result.params.z
            p == result.params.discrete
        IN  /\ result.out = IF rep_training THEN z ELSE p.z_hard
            /\ z \in SoftSamples
            /\ \A k \in Cats :
                   p.z_hard[k] = IF \A j \in Cats : z[j] <= z[k] THEN SoftUnit ELSE 0
            /\ p.logits \in LogitVals
            /\ p.log_q_z = log_softmax(p.logits)
            /\ p.tau_scalar = tau

ForwardReturnsSampleOfModeWitness ==
    /\ op = "gumbel_forward"
    /\ ~rep_training
    /\ result.out = result.params.discrete.z_hard
    /\ result.out # result.params.z
    /\ result.params.discrete.tau_scalar < tau0

(***************************************************************************)
(* C13: the hard sample that sample_gumbel produces for a soft sample has  *)
(* exactly one entry equal to 1 and every other entry equal to 0, also     *)
(* when two or more soft entries are tied for the maximum.                 *)
(***************************************************************************)
HardSampleIsOneHot ==
    op = "gumbel_forward" =>
        LET z_hard == result.params.discrete.z_hard
        IN  /\ \A k \in Cats : z_hard[k] \in {0, SoftUnit}
            /\ Cardinality({k \in Cats : z_hard[k] = SoftUnit}) = 1

(***************************************************************************)
(* C14: in evaluation mode IsotropicGaussian is deterministic: the sample  *)
(* a forward call returns is the mean, the first half of the logits,       *)
(* exactly, so two calls on the same logits return the same sample.        *)
(***************************************************************************)
EvalSampleIsMean ==
    (op = "gauss_forward" /\ ~rep_training /\ result.kind = "sample") =>
        LET l == result.params.logits.feat
        IN  result.out = SubSeq(l, 1, Len(l) \div 2)

EvalSampleIsMeanWitness ==
    /\ op = "gauss_forward" /\ ~rep_training /\ result.kind = "sample"
    /\ result.params.logits.feat = <<5, 0, 0, 5>>
    /\ result.out = <<5, 0>>

(***************************************************************************)
(* C15: IsotropicGaussian rejects malformed input: construction fails when *)
(* continuous_size is odd, and reparmeterize fails when the feature width  *)
(* of the logits is odd or differs from 2 * output_size, or when the       *)
(* logits have neither 2 nor 3 dimensions.                                 *)
(***************************************************************************)
GaussianRejectsMalformed ==
    /\ (pc = "idle" => config.continuous_size % 2 = 0)
    /\ (op = "construct" /\ config.continuous_size % 2 = 1 =>
            ret = "error" /\ pc = "unbuilt")
    /\ (op = "gauss_forward" =>
            LET l == IF result.kind = "error" THEN result.arg
                     ELSE result.params.logits
            IN  (\/ Len(l.feat) % 2 = 1
                 \/ Len(l.feat) # config.continuous_size
                 \/ l.rank \notin {2, 3}) => ret = "error" /\ result.kind = "error")

GaussianRejectsMalformedWitness ==
    /\ op = "gauss_forward" /\ ret = "error"
    /\ config.continuous_size = 2
    /\ Len(result.arg.feat) = 4
    /\ result.arg.rank = 2

(***************************************************************************)
(* C16 as stated: constructing a VRNN with a reparam_type that is not one  *)
(* of isotropic_gaussian, discrete, beta, mixture fails with 'unknown      *)
(* reparameterization type'; no other string selects a reparameterizer.    *)
(***************************************************************************)
KnownKinds == {<<"isotropic_gaussian">>, <<"discrete">>, <<"beta">>, <<"mixture">>}

UnknownTypeAlwaysRejected ==
    (op = "construct" /\ config.reparam_type \notin KnownKinds) =>
        /\ ret = "error" /\ pc = "unbuilt"
        /\ result.error = "unknown reparameterization type"

(***************************************************************************)
(* C16, amended: construction fails with 'unknown reparameterization       *)
(* type' exactly when reparam_type is none of isotropic_gaussian,          *)
(* discrete, beta and does not contain 'mixture'; every string that        *)
(* contains 'mixture' selects the Mixture reparameterizer.                 *)
(***************************************************************************)
UnknownTypeRejectedUnlessMixture ==
    op = "construct" =>
        LET t == config.reparam_type
        IN  /\ (t \notin KnownKinds /\ ~Contains(<<"mixture">>, t)) <=>
                   (result.kind = "error"
                    /\ result.error = "unknown reparameterization type")
            /\ Contains(<<"mixture">>, t) =>
                   (ret = "ok" /\ pc = "idle" /\ result = Built("Mixture"))
            /\ ret = "error" => pc = "unbuilt"

UnknownTypeRejectedUnlessMixtureWitness ==
    /\ op = "construct" /\ ret = "ok"
    /\ config.reparam_type = <<"not_a_", "mixture">>
    /\ result = Built("Mixture")

(***************************************************************************)
(* C17 as stated: a model whose mut_clamp_strategy matches none of none,   *)
(* norm, clamp fails at construction or on its first loss computation,     *)
(* whatever the mutual-information weights are.                            *)
(***************************************************************************)
StrategyKeys ==
    {<<"n", "o", "n", "e">>, <<"n", "o", "r", "m">>, <<"c", "l", "a", "m", "p">>}

UnknownStrategyAlwaysFails ==
    (op = "loss_function"
     /\ lower(strip(config.mut_clamp_strategy)) \notin StrategyKeys) =>
        ret = "error"

(***************************************************************************)
(* C17, amended: the clamp policy is looked up, after strip() and lower(), *)
(* among none, norm and clamp only when a mutual-information weight is     *)
(* positive; a loss computation fails on the lookup only when a weight is  *)
(* positive and the key is none of the three, it always fails then, and    *)
(* with no positive weight the mutual information is zero whatever the     *)
(* strategy string is.                                                     *)
(***************************************************************************)
UnknownStrategyFailsWhenWeighted ==
    op = "loss_function" =>
        LET key == lower(strip(config.mut_clamp_strategy))
        IN  /\ (result.kind = "error" /\ result.error = "KeyError") =>
                   (mi_enabled(config) /\ key \notin StrategyKeys /\ result.arg = key)
            /\ (key \notin StrategyKeys /\ mi_enabled(config)) =>
                   (ret = "error" /\ result.error \in {"KeyError", "nan"})
            /\ (ret = "ok" /\ ~mi_enabled(config)) => result.mut_info_mean = Value(0, 1)

UnknownStrategyFailsWhenWeightedWitness ==
    /\ op = "loss_function" /\ ret = "ok"
    /\ ~mi_enabled(config)
    /\ config.mut_clamp_strategy = <<"c", "l", "i", "p">>

(***************************************************************************)
(* C18 as stated: get_state and get_output fail with the precondition      *)
(* error while no forward pass has run, also after init_state alone.       *)
(***************************************************************************)
GettersFailBeforeForward ==
    (op \in {"get_state", "get_output"} /\ ~forwarded) =>
        (ret = "error" /\ result.kind = "error")

(***************************************************************************)
(* C18, amended: get_output fails with the precondition error exactly      *)
(* while no forward pass has run; get_state fails with it exactly while    *)
(* neither init_state nor a forward pass has run, and after init_state     *)
(* alone it succeeds and returns the initial state.                        *)
(***************************************************************************)
GettersFailBeforeStateExists ==
    /\ op = "get_output" =>
           /\ (ret = "error") <=> ~forwarded
           /\ ret = "error" => result.error = "AssertionError"
           /\ ret = "ok" => (result = Returned(outputs[1]) /\ result.val \in OVals)
    /\ op = "get_state" =>
           /\ (ret = "error") <=> state = <<>>
           /\ forwarded => ret = "ok"
           /\ ret = "error" => result.error = "AssertionError"
           /\ ret = "ok" => result = Returned(state[1])

GettersFailBeforeStateExistsWitness ==
    /\ op = "get_state" /\ ret = "ok"
    /\ ~forwarded
    /\ result = Returned([h |-> Zero, c |-> Zero])

(***************************************************************************)
(* C19: get_merged_memory and get_final_memory both fail with the          *)
(* precondition violation 'do a forward pass first' while no forward pass  *)
(* has run; neither returns a value.                                       *)
(***************************************************************************)
HistoryGettersAssertBeforeForward ==
    (op \in {"get_merged_memory", "get_final_memory"} /\ ~forwarded) =>
        /\ ret = "error"
        /\ result.kind = "error"
        /\ result.error = "AssertionError"
        /\ result.arg = "do a forward pass first"

(***************************************************************************)
(* C20: posterior() updates the aggregate-posterior EMA if and only if     *)
(* the model is in training mode: a training-mode call feeds its logits    *)
(* into the EMA exactly once (for the VRNN, once into each of the          *)
(* encoder_logits and prior_logits EMAs), an evaluation-mode call leaves   *)
(* every EMA as it was.                                                    *)
(***************************************************************************)
EmaFedOnlyInTraining ==
    [][/\ (op' = "vrnn_posterior" /\ ret' = "ok") =>
            ema' = IF training
                   THEN [ema EXCEPT !.encoder_logits = @ + 1, !.prior_logits = @ + 1]
                   ELSE ema
       /\ (op' = "vae_posterior" /\ ret' = "ok") =>
            ema' = IF training THEN [ema EXCEPT !.vae = @ + 1] ELSE ema
       /\ (op' \notin {"vrnn_posterior", "vae_posterior"} \/ ret' = "error") =>
            ema' = ema]_vars

EmaFedOnlyInTrainingWitness ==
    /\ op = "vrnn_posterior" /\ ret = "ok"
    /\ ~training /\ rep_training
    /\ ema = [encoder_logits |-> 2, prior_logits |-> 2, vae |-> 1]

(***************************************************************************)
(* one timestep of VRNN.forward, or one AbstractVAE.forward, adds the      *)
(* cross term q_z_given_xhat and makes its second posterior pass exactly   *)
(* when wanted holds                                                       *)
(***************************************************************************)
CrossTermWhen(wanted) ==
    LET n == IF wanted THEN 2 ELSE 1
    IN  /\ (pc = "forward" /\ i' = i + 1) =>
               /\ params'[Len(params')].q_z_given_xhat = wanted
               /\ ema' = IF training
                         THEN [ema EXCEPT !.encoder_logits = @ + n,
                                          !.prior_logits = @ + n]
                         ELSE ema
        /\ op' = "vae_forward" =>
               /\ result'.params.q_z_given_xhat = wanted
               /\ ema' = IF training THEN [ema EXCEPT !.vae = @ + n] ELSE ema

(***************************************************************************)
(* C21 as stated: forward adds the cross term q_z_given_xhat, after a      *)
(* second posterior pass, exactly when at least one of continuous_mut_info *)
(* and discrete_mut_info is nonzero; otherwise no second pass runs and the *)
(* params are returned unchanged.                                          *)
(***************************************************************************)
CrossTermWhenWeightNonzero ==
    [][CrossTermWhen(config.continuous_mut_info # 0
                     \/ config.discrete_mut_info # 0)]_vars

(***************************************************************************)
(* C21, amended: forward adds the cross term q_z_given_xhat, after a       *)
(* second posterior pass, exactly when at least one of continuous_mut_info *)
(* and discrete_mut_info is greater than zero; otherwise (both zero or     *)
(* negative) no second pass runs and the params are returned unchanged.    *)
(***************************************************************************)
CrossTermWhenWeightPositive ==
    [][CrossTermWhen(config.continuous_mut_info > 0
                     \/ config.discrete_mut_info > 0)]_vars

CrossTermWhenWeightPositiveWitness ==
    /\ ForwardReturned
    /\ config.continuous_mut_info = -1 /\ config.discrete_mut_info = 1
    /\ config.max_time_steps = 2
    /\ params[1].q_z_given_xhat /\ params[2].q_z_given_xhat
    /\ ema.encoder_logits = 4

NanLogvarAlwaysHalts ==
    op = "gauss_forward" =>
        LET l == IF result.kind = "error" THEN result.arg
                 ELSE result.params.logits
            half == Len(l.feat) \div 2
        IN  /\ (\E k \in (half + 1)..Len(l.feat) : l.feat[k] = NaN) =>
                   ret = "error" /\ result.kind = "error"
            /\ result.kind = "sample" =>
                   \A k \in 1..half : result.params.gaussian.logvar[k] # NaN

(***************************************************************************)
(* C24: VRNN.loss_function returns, for every reported key, the sum of the *)
(* base per-timestep values divided by the number of timesteps, which is   *)
(* its 'count'; for a sequence of length 1 every reported value equals the *)
(* base single-step value exactly.                                         *)
(***************************************************************************)
RECURSIVE SumOfBase(_, _)
SumOfBase(key, n) ==
    IF n = 0 THEN 0 ELSE SumOfBase(key, n - 1) + calls[n].par[key].num

AggregateIsMeanOfBase ==
    (op = "vrnn_loss_function" /\ ret = "ok") =>
        /\ result.count = Len(calls)
        /\ Len(input_t.val) = Len(decoded) => result.count = Len(decoded)
        /\ \A key \in LossKeys :
              /\ \A n \in 1..Len(calls) : calls[n].par[key].den = 1
              /\ result[key] = Value(SumOfBase(key, Len(calls)), result.count)
              /\ result.count = 1 => result[key] = calls[1].par[key]

AggregateIsMeanOfBaseWitness ==
    /\ op = "vrnn_loss_function" /\ ret = "ok"
    /\ input_t.is_list /\ Len(decoded) = 3 /\ result.count = 3
    /\ calls[1].par.nll_mean = Value(1, 1)
    /\ calls[2].par.nll_mean = Value(0, 1)
    /\ calls[3].par.nll_mean = Value(1, 1)
    /\ result.nll_mean = Value(2, 3)

(***************************************************************************)
(* C25 as stated: when VRNN.loss_function receives a single (non-list)     *)
(* input tensor together with T reconstruction outputs, for every batch    *)
(* size and every T exactly T per-timestep losses are computed, each       *)
(* against the whole input scaled by 1/T.                                  *)
(***************************************************************************)
SingleTensorAlwaysSplit ==
    (op = "vrnn_loss_function" /\ ret = "ok" /\ ~input_t.is_list) =>
        /\ Len(calls) = Len(decoded)
        /\ \A n \in 1..Len(calls) :
              calls[n].x = [part |-> "whole", index |-> 0, den |-> Len(decoded)]

(***************************************************************************)
(* C26 as stated: VRNN.kld returns KL(posterior || prior) through the      *)
(* two-distribution path, plus the prior's own KL against the default      *)
(* hyper-prior exactly when use_prior_kl is any truthy setting, and plus 0 *)
(* otherwise.                                                              *)
(***************************************************************************)
KldAddsPriorKlWhen(on) ==
    op = "kld" =>
        LET two == calls[Len(calls)]
        IN  /\ two.call = "kl" /\ two.x = 2
            /\ IF on
               THEN /\ Len(calls) = 2
                    /\ calls[1].call = "kl" /\ calls[1].x = 1
                    /\ result = Value(two.dec + calls[1].dec, 1)
               ELSE /\ Len(calls) = 1
                    /\ result = Value(two.dec, 1)

PriorKlAddedWhenTruthy == KldAddsPriorKlWhen(truthy(config.use_prior_kl))

(***************************************************************************)
(* C26, amended: VRNN.kld returns KL(posterior || prior) through the       *)
(* two-distribution path, plus the prior's own KL exactly when             *)
(* use_prior_kl is the boolean True; every other setting, truthy ones such *)
(* as 1 included, adds 0.                                                  *)
(***************************************************************************)
PriorKlAddedWhenTrue == KldAddsPriorKlWhen(config.use_prior_kl = "True")

PriorKlAddedWhenTrueWitness ==
    /\ op = "kld"
    /\ config.use_prior_kl = "1"
    /\ Len(calls) = 1 /\ calls[1].x = 2 /\ calls[1].dec = 2
    /\ result = Value(2, 1)

(***************************************************************************)
(* C27: every call to VRNN.decode that returns advances the recurrent      *)
(* memory by exactly one step: one cell invocation, one new history entry  *)
(* holding the new state, the current state replaced, whether or not       *)
(* produce_output is set; reconstruction logits are computed only when     *)
(* produce_output is set, and otherwise the call returns None.             *)
(***************************************************************************)
DecodeAdvancesOneStep ==
    [][(op' = "decode" /\ ret' = "ok") =>
          LET n == Len(memory_buffer)
          IN  /\ Len(steps') = Len(steps) + 1
              /\ Len(memory_buffer') = n + 1
              /\ SubSeq(memory_buffer', 1, n) = memory_buffer
              /\ state' = <<state_from_tuple(steps'[Len(steps')])>>
              /\ state_from_tuple(memory_buffer'[n + 1]) = state'[1]
              /\ (result'.val = <<>>) <=> ~calls'[1].flag
              /\ result'.kind = "returned"]_vars

DecodeAdvancesOneStepWitness ==
    /\ op = "decode" /\ ret = "ok"
    /\ ~calls[1].flag /\ calls[1].buf = 1
    /\ result = Returned(<<>>)
    /\ Len(memory_buffer) = 2 /\ Len(steps) = 2

(***************************************************************************)
(* C28 as stated: _ensure_same_size resizes only the smaller tensor of     *)
(* each (prediction, target) pair up to the larger one's spatial size:     *)
(* afterwards both have the same spatial size, the larger is unchanged and *)
(* no size is ever reduced; lists of different lengths are rejected.       *)
(***************************************************************************)
ResizeNeverReduces ==
    op = "_ensure_same_size" =>
        LET p0 == calls[1].dec
            t0 == calls[1].x
        IN  IF Len(p0) # Len(t0)
            THEN ret = "error"
            ELSE /\ ret = "ok"
                 /\ \A k \in 1..Len(p0) :
                       LET p1 == result.val.prediction_list[k]
                           t1 == result.val.target_list[k]
                       IN  /\ <<p1[3], p1[4]>> = <<t1[3], t1[4]>>
                           /\ p1 = p0[k] \/ t1 = t0[k]
                           /\ \A d \in 3..4 : p1[d] >= p0[k][d] /\ t1[d] >= t0[k][d]

(***************************************************************************)
(* C29.  A completed generate_synthetic_samples call logs its steps at     *)
(* calls[2], calls[3], ...; decoded is the list it returns.                *)
(***************************************************************************)
GenerateReturned == op = "generate" /\ pc = "idle" /\ ret = "ok"

GenerateRollout(rule(_, _, _)) ==
    GenerateReturned =>
        /\ Len(decoded) = config.max_time_steps
        /\ Len(calls) = config.max_time_steps
        /\ \A k \in 1..(Len(decoded) - 1) :
              /\ calls[k + 1].call = "step"
              /\ calls[k + 1].x = decoded[k]
              /\ decoded[k + 1] = rule(k - 1, calls[k + 1].dec, decoded[k])

\* C29 as stated: generate_synthetic_samples decodes one prior sample, then
\* performs exactly max_time_steps - 1 further steps and returns exactly
\* max_time_steps outputs; the rollout applies the feedback rule of the
\* single-input branch of forward, so that from the same initial value and
\* step outputs both produce the same sequence of next inputs
GenerateFeedsBackAsForward == GenerateRollout(next_input)

\* C29, amended: generate_synthetic_samples decodes one prior sample, then
\* performs exactly max_time_steps - 1 further steps and returns exactly
\* max_time_steps outputs; every step, the first included, adds its output
\* to the running value, where forward's single-input branch replaces the
\* input by the output of its first step
GenerateAdd(k, dec_output_tp1, dec_output_t) == dec_output_t + dec_output_tp1

GenerateFeedsBackAdditively == GenerateRollout(GenerateAdd)

GenerateFeedsBackAdditivelyWitness ==
    /\ GenerateReturned
    /\ config.max_time_steps = 3
    /\ decoded = <<1, 2, 3>>
    /\ calls[2].x = 1 /\ calls[2].dec = 1
    /\ calls[3].x = 2 /\ calls[3].dec = 1
    /\ next_input(0, calls[2].dec, calls[2].x) = 1

(***************************************************************************)
(* C30 as stated: within one VRNN timestep that uses GumbelSoftmax the     *)
(* posterior sample and the prior sample are drawn at the same             *)
(* temperature, and the timestep advances the Gumbel step counter by       *)
(* exactly one.  The reparameterizer calls of a timestep are those of its  *)
(* posterior pass.                                                         *)
(***************************************************************************)
GumbelPosteriorPass ==
    op' = "vrnn_posterior" /\ ret' = "ok" /\ config.reparam_type = <<"discrete">>

TimestepCountsOneAtOneTemperature ==
    [][GumbelPosteriorPass =>
          /\ iteration' = iteration + 1
          /\ result'.posterior.tau_scalar = result'.prior.tau_scalar]_vars

(***************************************************************************)
(* C30, amended: within one VRNN timestep that uses GumbelSoftmax the      *)
(* reparameterizer is called twice, on the encoder logits and then on the  *)
(* prior logits, so the step counter advances by exactly two; the prior    *)
(* sample is drawn at the temperature of the posterior sample unless the   *)
(* second call anneals, which it does in training mode when the counter    *)
(* after the first call is a multiple of 10.                               *)
(***************************************************************************)
TimestepCountsTwoCalls ==
    [][GumbelPosteriorPass =>
          /\ iteration' = iteration + 2
          /\ result'.prior.tau_scalar = tau'
          /\ result'.posterior.tau_scalar # result'.prior.tau_scalar =>
                 rep_training /\ (iteration + 1) % 10 = 0
          /\ ~(rep_training /\ (iteration + 1) % 10 = 0) =>
                 result'.posterior.tau_scalar = result'.prior.tau_scalar]_vars

TimestepCountsTwoCallsWitness ==
    /\ op = "vrnn_posterior" /\ ret = "ok"
    /\ config.reparam_type = <<"discrete">>
    /\ iteration = 11
    /\ result.posterior.tau_scalar = tau0
    /\ result.prior.tau_scalar < tau0
    /\ tau = result.prior.tau_scalar

====
